---- MODULE Spec2Model ----
(***************************************************************************)
(* A model of the data-segmentation API: the HTTP handlers of app.py, the  *)
(* service classes of chalicelib/services and the validators of            *)
(* chalicelib/utils, together with the four backends they call (the job    *)
(* orchestration backend, the object store, the metadata table and the     *)
(* wall clock).                                                            *)
(*                                                                         *)
(* Path strings are sequences of one-character strings, so that            *)
(* str.startswith, str.replace and str.split are computed character by     *)
(* character.  Other texts (messages, job names) are atomic strings, and   *)
(* an f-string is the tuple of its parts.                                  *)
(***************************************************************************)
EXTENDS Integers, Sequences, FiniteSets, TLC

VARIABLES glueRuns, table, s3objects, clock, last

vars == <<glueRuns, table, s3objects, clock, last>>

(***************************************************************************)
(* Bounds of the model.                                                    *)
(***************************************************************************)
\* longest path, in tokens of PathTokens, given to the validators
MaxTokens == 6

(***************************************************************************)
(* Python values.                                                          *)
(***************************************************************************)
\* Python's None, where the other values are atomic texts, character
\* sequences and records
None == "None"

NonePath == <<"None">>

NoneItem == [none |-> TRUE]

\* a call that returned v
Ok(v) == [exc |-> "NoException", val |-> v]

\* a call that raised an exception of class t with message m
Raise(t, m) == [exc |-> t, val |-> m]

(***************************************************************************)
(* Python string operations, on sequences of characters.                   *)
(***************************************************************************)
\* the literal "s3://"
S3Scheme == <<"s", "3", ":", "/", "/">>

\* s.startswith(p)
StartsWith(s, p) == Len(s) >= Len(p) /\ SubSeq(s, 1, Len(p)) = p

\* s.replace(old, ""): every non-overlapping occurrence of old, left to
\* right, is removed
RECURSIVE Replace(_, _)
Replace(s, old) ==
    IF s = <<>> THEN <<>>
    ELSE IF StartsWith(s, old)
         THEN Replace(SubSeq(s, Len(old) + 1, Len(s)), old)
         ELSE <<Head(s)>> \o Replace(Tail(s), old)

\* s.split("/", 1): the list of the parts around the first "/", or the one
\* part s when it holds no "/"
Split1(s) ==
    LET idx == {i \in 1..Len(s) : s[i] = "/"}
    IN  IF idx = {} THEN <<s>>
        ELSE LET i == CHOOSE j \in idx : \A k \in idx : j <= k
             IN  <<SubSeq(s, 1, i - 1), SubSeq(s, i + 1, Len(s))>>

\* a, b = parts: ValueError unless parts has exactly two elements
Unpack2(parts) ==
    IF Len(parts) = 2 THEN Ok(<<parts[1], parts[2]>>)
    ELSE Raise("ValueError", "not enough values to unpack")

\* the expression s3_path.replace("s3://", "").split("/", 1) unpacked into
\* bucket_name, key
BucketKey(s3_path) == Unpack2(Split1(Replace(s3_path, S3Scheme)))

(***************************************************************************)
(* chalicelib/utils/validators.py                                          *)
(***************************************************************************)
\* validate_s3_path with the except ValueError clause left out
validate_s3_path_NoExcept(s3_path) ==
    IF s3_path = <<>> THEN Raise("ValidationError", "S3 file path is required")
    ELSE IF ~StartsWith(s3_path, S3Scheme)
         THEN Raise("ValidationError", "S3 path must start with 's3://'")
         ELSE BucketKey(s3_path)

validate_s3_path(s3_path) ==
    IF s3_path = <<>> THEN Raise("ValidationError", "S3 file path is required")
    ELSE IF ~StartsWith(s3_path, S3Scheme)
         THEN Raise("ValidationError", "S3 path must start with 's3://'")
         ELSE LET r == BucketKey(s3_path)
              IN  IF r.exc = "ValueError"
                  THEN Raise("ValidationError", "Invalid S3 path format")
                  ELSE r

(***************************************************************************)
(* The paths given to the validators: every concatenation of at most       *)
(* MaxTokens tokens.                                                       *)
(***************************************************************************)
PathTokens ==
    { S3Scheme, <<"s", "3", ":">>, <<"/">>, <<"b">>, <<"k">> }

RECURSIVE Flatten(_)
Flatten(ts) == IF ts = <<>> THEN <<>> ELSE Head(ts) \o Flatten(Tail(ts))

Paths == { Flatten(ts) : ts \in UNION { [1..n -> PathTokens] : n \in 0..MaxTokens } }

(***************************************************************************)
(* The state after construction: no job run, an empty table, no call made. *)
(***************************************************************************)
NoCall == [op |-> "none"]

Init ==
    /\ glueRuns = <<>>
    /\ table = {}
    /\ s3objects = {}
    /\ clock = 0
    /\ last = NoCall

(***************************************************************************)
(* Configuration (app.py, aws_clients.py).                                 *)
(***************************************************************************)
CATEGORIZATION_GLUE_JOB == "data-categorization-job"

SEGMENTATION_GLUE_JOB == "data-segmentation-job"

REGION_NAME == "eu-west-1"

CATEGORIZATION_LAMBDA_FUNCTION_NAME == "data-categorization-bedrock-api"

\* app.py never binds the global name session that get_job_status and
\* categorize_with_bedrock read: reading it raises NameError
SessionDefined == FALSE

(***************************************************************************)
(* The job orchestration backend.  glueRuns[i] is the run with id i: the   *)
(* job it was started under, its state and its ErrorMessage (NoMessage     *)
(* when the run carries none).                                             *)
(***************************************************************************)
NoMessage == "NoMessage"

TerminalFailures == {"FAILED", "STOPPED", "TIMEOUT"}

JobRunStates == {"STARTED", "RUNNING", "SUCCEEDED"} \cup TerminalFailures

\* what start_job_run can answer: a new run, or one of the exceptions the
\* callers name, or any other exception
StartOutcomes == {"ok", "EntityNotFoundException", "ClientError", "OtherError"}

\* the id the backend gives the next run it starts
NewRunId == Len(glueRuns) + 1

\* glue_client.start_job_run(JobName=job, Arguments=args), answered by out:
\* the JobRunId of the new run when out is "ok"
StartJobRunCall(job, args, out) ==
    [api |-> "start_job_run", JobName |-> job, Arguments |-> args, outcome |-> out,
     JobRunId |-> IF out = "ok" THEN NewRunId ELSE 0]

\* the backend after a start_job_run answered by out
RunsAfterStart(job, out) ==
    IF out = "ok"
    THEN Append(glueRuns, [job |-> job, state |-> "STARTED", err |-> NoMessage])
    ELSE glueRuns

\* glue_client.get_job_run(JobName=job, RunId=id): the run, unless the
\* backend has no such run under that job or the call fails (fault)
GetJobRun(job, id, fault) ==
    IF fault THEN Raise("ClientError", "backend failure")
    ELSE IF id \in DOMAIN glueRuns /\ glueRuns[id].job = job
         THEN Ok(glueRuns[id])
         ELSE Raise("EntityNotFoundException", "no such run")

GetJobRunCall(job, id, r) ==
    [api |-> "get_job_run", JobName |-> job, RunId |-> id, outcome |-> r.exc,
     JobRun |-> r.val]

\* str.lower() of a job run state
Lower(status) ==
    CASE status = "STARTED" -> "started"
      [] status = "RUNNING" -> "running"
      [] status = "SUCCEEDED" -> "succeeded"
      [] status = "FAILED" -> "failed"
      [] status = "STOPPED" -> "stopped"
      [] status = "TIMEOUT" -> "timeout"

(***************************************************************************)
(* The metadata table 'data-categorization-file-metadata', keyed by        *)
(* file_id, and the clock that datetime.now() reads.                       *)
(***************************************************************************)
\* datetime.now().isoformat(): a fixed-width text, here two digits
IsoFormat(t) == <<t \div 10, t % 10>>

\* a < b for two texts, compared character by character as Python does
RECURSIVE StrLess(_, _)
StrLess(a, b) ==
    IF b = <<>> THEN FALSE
    ELSE IF a = <<>> THEN TRUE
    ELSE IF Head(a) # Head(b) THEN Head(a) < Head(b)
    ELSE StrLess(Tail(a), Tail(b))

\* item.get(field, default)
Get(item, field, default) == IF field \in DOMAIN item THEN item[field] ELSE default

\* table.put_item(Item=item): the item replaces the one with its key
PutItem(item) == {i \in table : i.file_id # item.file_id} \cup {item}

\* the lists a scan can return for the set S of matching items: the order
\* of a scan is the backend's
RECURSIVE ScanOrders(_)
ScanOrders(S) ==
    IF S = {} THEN {<<>>}
    ELSE UNION { { <<x>> \o rest : rest \in ScanOrders(S \ {x}) } : x \in S }

\* max(items, key=lambda x: x.get('timestamp', '')) with the first-minimum
\* mistake: the comparison turned around
RECURSIVE LatestItem_Oldest(_)
LatestItem_Oldest(items) ==
    IF Len(items) = 1 THEN items[1]
    ELSE LET m == LatestItem_Oldest(SubSeq(items, 1, Len(items) - 1))
             x == items[Len(items)]
         IN  IF StrLess(Get(x, "timestamp", <<>>), Get(m, "timestamp", <<>>)) THEN x ELSE m

\* max(items, key=lambda x: x.get('timestamp', '')) of a non-empty list:
\* the first item whose timestamp no other exceeds
RECURSIVE LatestItem(_)
LatestItem(items) ==
    IF Len(items) = 1 THEN items[1]
    ELSE LET m == LatestItem(SubSeq(items, 1, Len(items) - 1))
             x == items[Len(items)]
         IN  IF StrLess(Get(m, "timestamp", <<>>), Get(x, "timestamp", <<>>)) THEN x ELSE m

(***************************************************************************)
(* Chalice responses.                                                      *)
(***************************************************************************)
\* Response(body=..., status_code=...)
Response(body, status_code) == [status_code |-> status_code, body |-> body]

\* a handler that returns a plain dict: Chalice answers 200 with it
DictResponse(body) == [status_code |-> 200, body |-> body]

\* a handler's outcome: the operation, its request, the backend calls it
\* made in order, and its response
Handled(op, req, calls, resp) ==
    [op |-> op, req |-> req, calls |-> calls, resp |-> resp]

\* a service method's outcome: the backend calls it made and what it
\* returned or raised
Called(op, args, calls, result) ==
    [op |-> op, args |-> args, calls |-> calls, result |-> result]

(***************************************************************************)
(* Bounds and inputs of the handlers and services.                         *)
(***************************************************************************)
\* most job runs the backend holds
MaxRuns == 1

\* most items the metadata table holds
MaxItems == 2

\* last reading of the clock
MaxClock == 1

\* the run ids a status query asks for; 0 is no run's id
RunIds == 0..MaxRuns

\* the s3FilePath values of a request body: absent, empty, without the
\* scheme, well-formed, and with the scheme but no "/" after the bucket
RequestPaths ==
    { NonePath, <<>>, <<"b", "/", "k">>, S3Scheme \o <<"b", "/", "k">>, S3Scheme \o <<"b">> }

\* the objects the object store can hold
ObjectKeys == { [Bucket |-> <<"b">>, Key |-> <<"k">>] }

\* the job names the services are called with
JobNames == {CATEGORIZATION_GLUE_JOB, SEGMENTATION_GLUE_JOB}

FileNames == {"f.csv", "g.csv"}

\* the categorization results a caller stores
CategorizationResults ==
    { [suggested_categories |-> <<c>>, reasoning |-> "r", segmentation_criteria |-> <<>>]
        : c \in {"cat1", "cat2"} }

(***************************************************************************)
(* The backends' own steps.                                                *)
(***************************************************************************)
\* the clock advances
Tick ==
    /\ clock < MaxClock
    /\ clock' = clock + 1
    /\ UNCHANGED <<glueRuns, table, s3objects, last>>

\* a started run begins to run
GlueRunStarts(i) ==
    /\ glueRuns[i].state = "STARTED"
    /\ glueRuns' = [glueRuns EXCEPT ![i].state = "RUNNING"]
    /\ UNCHANGED <<table, s3objects, clock, last>>

\* a running run succeeds
GlueRunSucceeds(i) ==
    /\ glueRuns[i].state = "RUNNING"
    /\ glueRuns' = [glueRuns EXCEPT ![i].state = "SUCCEEDED"]
    /\ UNCHANGED <<table, s3objects, clock, last>>

\* a running run fails, is stopped or times out, with or without an
\* ErrorMessage
GlueRunEndsBadly(i, state, err) ==
    /\ glueRuns[i].state = "RUNNING"
    /\ glueRuns' = [glueRuns EXCEPT ![i].state = state, ![i].err = err]
    /\ UNCHANGED <<table, s3objects, clock, last>>

\* the backend attaches an ErrorMessage to a run that has not ended badly:
\* a JobRun of any state may carry one
GlueRunReportsError(i, err) ==
    /\ glueRuns[i].state \notin TerminalFailures
    /\ glueRuns[i].err = NoMessage
    /\ glueRuns' = [glueRuns EXCEPT ![i].err = err]
    /\ UNCHANGED <<table, s3objects, clock, last>>

\* an object is uploaded to, or deleted from, the object store
ObjectCreated(o) ==
    /\ o \notin s3objects
    /\ s3objects' = s3objects \cup {o}
    /\ UNCHANGED <<glueRuns, table, clock, last>>

ObjectDeleted(o) ==
    /\ o \in s3objects
    /\ s3objects' = s3objects \ {o}
    /\ UNCHANGED <<glueRuns, table, clock, last>>

(***************************************************************************)
(* app.py: POST /categorize                                                *)
(***************************************************************************)
\* StartJobResponse answering 201 for a started run
StartJobResponse_Created(job, out, started, unexpected) ==
    IF out = "ok" THEN Response(started, 201)
    ELSE Response([error |-> "Internal server error", details |-> unexpected,
                   type |-> "server"], 500)

\* the response to a start_job_run for the job named job, answered by out:
\* the 200 body started, or the 500 of the except clause that out reaches
StartJobResponse(job, out, started, unexpected) ==
    CASE out = "ok" -> Response(started, 200)
      [] out = "EntityNotFoundException" ->
           Response([error |-> "Glue job not found",
                     details |-> <<"The Glue job '", job,
                                   "' does not exist. Please check your configuration.">>,
                     type |-> "glue"], 500)
      [] out = "ClientError" ->
           Response([error |-> "AWS Glue service error",
                     details |-> "backend failure",
                     type |-> "glue"], 500)
      [] OTHER ->
           Response([error |-> "Internal server error",
                     details |-> unexpected,
                     type |-> "server"], 500)

\* the 400 response to a body without s3FilePath
MissingPathResponse(verb) ==
    Response([error |-> "Missing s3FilePath parameter",
              details |-> <<"Please provide the S3 path to the file you want to ", verb>>],
             400)

\* the 400 response to an s3FilePath without the scheme
InvalidPathResponse ==
    Response([error |-> "Invalid S3 path format",
              details |-> "S3 path must start with 's3://'"], 400)

\* Python's "not s3_path" for a missing or empty value
Falsy(s3_path) == s3_path = NonePath \/ s3_path = <<>>

\* categorize without the check of the scheme (lines 70-78)
categorize_NoSchemeCheck(s3_path, out) ==
    /\ UNCHANGED <<table, s3objects, clock>>
    /\ IF Falsy(s3_path)
       THEN /\ last' = Handled("categorize", s3_path, <<>>, MissingPathResponse("categorize"))
            /\ UNCHANGED glueRuns
       ELSE /\ out = "ok" => Len(glueRuns) < MaxRuns
            /\ glueRuns' = RunsAfterStart(CATEGORIZATION_GLUE_JOB, out)
            /\ last' = Handled("categorize", s3_path,
                  << StartJobRunCall(CATEGORIZATION_GLUE_JOB,
                        [S3_FILE_PATH |-> s3_path,
                         LAMBDA_FUNCTION_NAME |-> CATEGORIZATION_LAMBDA_FUNCTION_NAME],
                        out) >>,
                  StartJobResponse(CATEGORIZATION_GLUE_JOB, out,
                      [message |-> "Categorization Glue job started successfully",
                       jobRunId |-> NewRunId,
                       status |-> "STARTED",
                       segmentedRows |-> <<>>,
                       columns |-> <<>>],
                      "An unexpected error occurred during categorization"))

categorize(s3_path, out) ==
    /\ UNCHANGED <<table, s3objects, clock>>
    /\ IF Falsy(s3_path)
       THEN /\ last' = Handled("categorize", s3_path, <<>>, MissingPathResponse("categorize"))
            /\ UNCHANGED glueRuns
       ELSE IF ~StartsWith(s3_path, S3Scheme)
       THEN /\ last' = Handled("categorize", s3_path, <<>>, InvalidPathResponse)
            /\ UNCHANGED glueRuns
       ELSE /\ out = "ok" => Len(glueRuns) < MaxRuns
            /\ glueRuns' = RunsAfterStart(CATEGORIZATION_GLUE_JOB, out)
            /\ last' = Handled("categorize", s3_path,
                  << StartJobRunCall(CATEGORIZATION_GLUE_JOB,
                        [S3_FILE_PATH |-> s3_path,
                         LAMBDA_FUNCTION_NAME |-> CATEGORIZATION_LAMBDA_FUNCTION_NAME],
                        out) >>,
                  StartJobResponse(CATEGORIZATION_GLUE_JOB, out,
                      [message |-> "Categorization Glue job started successfully",
                       jobRunId |-> NewRunId,
                       status |-> "STARTED",
                       segmentedRows |-> <<>>,
                       columns |-> <<>>],
                      "An unexpected error occurred during categorization"))

(***************************************************************************)
(* app.py: GET /job-status/{job_run_id}                                    *)
(***************************************************************************)
\* the scan of the table for the items with the given job name: a list of
\* them in some order, or a failure
ScanAnswers(job_name) ==
    { Ok(o) : o \in ScanOrders({i \in table : Get(i, "job_name", None) = job_name}) }
        \cup { Raise("ClientError", "backend failure") }

ScanCall(job_name, r) ==
    [api |-> "scan", job_name |-> job_name, outcome |-> r.exc]

\* SucceededCalls with the scan asked a second time
SucceededCalls_Retried(scan) ==
    <<ScanCall(CATEGORIZATION_GLUE_JOB, scan), ScanCall(CATEGORIZATION_GLUE_JOB, scan)>>

\* the calls of the try block of lines 163-194 for a scan answered by scan:
\* none when reading session raises NameError
SucceededCalls(scan) ==
    IF SessionDefined THEN <<ScanCall(CATEGORIZATION_GLUE_JOB, scan)>> ELSE <<>>

\* the response of the branch status == 'SUCCEEDED' for a scan answered by
\* scan: the except clause of line 195 answers when session or the scan
\* raises
SucceededResponse(job_run_id, status, scan) ==
    IF ~SessionDefined \/ scan.exc # "NoException"
    THEN DictResponse([jobRunId |-> job_run_id,
                       status |-> status,
                       message |-> "Job completed successfully",
                       segmentedRows |-> <<>>,
                       columns |-> <<>>])
    ELSE IF scan.val # <<>>
    THEN LET latest_item == LatestItem(scan.val)
         IN  DictResponse([jobRunId |-> job_run_id,
                           status |-> status,
                           message |-> "Job completed successfully",
                           suggestedCategories |-> Get(latest_item, "suggested_categories", <<>>),
                           generatedScriptPath |-> Get(latest_item, "generated_script_path", ""),
                           segmentedRows |-> <<>>,
                           columns |-> Get(latest_item, "suggested_categories", <<>>)])
    ELSE DictResponse([jobRunId |-> job_run_id,
                       status |-> status,
                       message |-> "Job completed successfully but no results found",
                       segmentedRows |-> <<>>,
                       columns |-> <<>>])

\* FailedResponse without the call of lower()
FailedResponse_NoLower(job_run) ==
    Response([error |-> <<"Job ", job_run.state>>,
              details |-> IF job_run.err = NoMessage THEN "Unknown error" ELSE job_run.err,
              type |-> "glue"], 500)

\* the response to a run that failed, was stopped or timed out
FailedResponse(job_run) ==
    Response([error |-> <<"Job ", Lower(job_run.state)>>,
              details |-> IF job_run.err = NoMessage THEN "Unknown error" ELSE job_run.err,
              type |-> "glue"], 500)

\* the response of the handler for a get_job_run answered by r
StatusResponse(job_run_id, r, scan) ==
    CASE r.exc = "EntityNotFoundException" ->
           Response([error |-> "Job run not found",
                     details |-> <<"The job run '", ToString(job_run_id), "' does not exist.">>,
                     type |-> "glue"], 404)
      [] r.exc = "NoException" /\ r.val.state = "SUCCEEDED" ->
           SucceededResponse(job_run_id, r.val.state, scan)
      [] r.exc = "NoException" /\ r.val.state \in TerminalFailures ->
           FailedResponse(r.val)
      [] r.exc = "NoException" /\ r.val.state \notin TerminalFailures \cup {"SUCCEEDED"} ->
           DictResponse([jobRunId |-> job_run_id,
                         status |-> r.val.state,
                         message |-> <<"Job is ", Lower(r.val.state)>>])
      [] OTHER ->
           Response([error |-> "Error checking job status",
                     details |-> r.val,
                     type |-> "server"], 500)

get_job_status(job_run_id, fault, scan) ==
    LET r == GetJobRun(CATEGORIZATION_GLUE_JOB, job_run_id, fault)
        succeeded == r.exc = "NoException" /\ r.val.state = "SUCCEEDED"
    IN  /\ last' = Handled("get_job_status", job_run_id,
                      <<GetJobRunCall(CATEGORIZATION_GLUE_JOB, job_run_id, r)>>
                          \o (IF succeeded THEN SucceededCalls(scan) ELSE <<>>),
                      StatusResponse(job_run_id, r, scan))
        /\ UNCHANGED <<glueRuns, table, s3objects, clock>>

(***************************************************************************)
(* app.py: POST /segmentation                                              *)
(***************************************************************************)
\* what head_object can answer for an object: found, or, when the object
\* store does not hold it, NoSuchKey; or a failure of the call
HeadOutcomes(o) ==
    (IF o \in s3objects THEN {"ok"} ELSE {"NoSuchKey"}) \cup {"ClientError", "OtherError"}

HeadObjectCall(o, out) ==
    [api |-> "head_object", Bucket |-> o.Bucket, Key |-> o.Key, outcome |-> out]

\* the response Chalice gives when a handler lets an exception escape
UncaughtResponse(exc) ==
    Response([Code |-> "InternalServerError", Message |-> exc], 500)

\* the response of lines 276-295 to a head_object that raised
HeadFailedResponse(s3_path, out) ==
    IF out = "NoSuchKey"
    THEN Response([error |-> "S3 file not found",
                   details |-> <<"The file '", s3_path,
                                 "' does not exist in S3. Please check the file path and ensure the file has been uploaded.">>,
                   type |-> "s3"], 404)
    ELSE IF out = "ClientError"
    THEN Response([error |-> "S3 access error",
                   details |-> <<"Unable to access S3 file: ", "backend failure">>,
                   type |-> "s3"], 500)
    ELSE UncaughtResponse(out)

segmentation(s3_path, head, out) ==
    /\ UNCHANGED <<table, s3objects, clock>>
    /\ IF Falsy(s3_path)
       THEN /\ last' = Handled("segmentation", s3_path, <<>>, MissingPathResponse("segment"))
            /\ UNCHANGED glueRuns
       ELSE IF ~StartsWith(s3_path, S3Scheme)
       THEN /\ last' = Handled("segmentation", s3_path, <<>>, InvalidPathResponse)
            /\ UNCHANGED glueRuns
       ELSE LET bk == BucketKey(s3_path)
                o == [Bucket |-> bk.val[1], Key |-> bk.val[2]]
            IN  IF bk.exc # "NoException"
                THEN /\ last' = Handled("segmentation", s3_path, <<>>, UncaughtResponse(bk.exc))
                     /\ UNCHANGED glueRuns
                ELSE /\ head \in HeadOutcomes(o)
                     /\ IF head # "ok"
                        THEN /\ last' = Handled("segmentation", s3_path,
                                            <<HeadObjectCall(o, head)>>,
                                            HeadFailedResponse(s3_path, head))
                             /\ UNCHANGED glueRuns
                        ELSE /\ out = "ok" => Len(glueRuns) < MaxRuns
                             /\ glueRuns' = RunsAfterStart(SEGMENTATION_GLUE_JOB, out)
                             /\ last' = Handled("segmentation", s3_path,
                                   << HeadObjectCall(o, head),
                                      StartJobRunCall(SEGMENTATION_GLUE_JOB,
                                          [s3_input_path |-> s3_path], out) >>,
                                   StartJobResponse(SEGMENTATION_GLUE_JOB, out,
                                      [message |-> "Segmentation Glue job started successfully",
                                       jobRunId |-> NewRunId,
                                       status |-> "STARTED"],
                                      "An unexpected error occurred during segmentation"))

(***************************************************************************)
(* chalicelib/services/glue_service.py                                     *)
(***************************************************************************)
\* what the except clauses of the two job launchers make of a start_job_run
\* answered by out, which returns the dict started when it is "ok"
LaunchResult(job, out, started) ==
    CASE out = "ok" -> Ok(started)
      [] out = "EntityNotFoundException" ->
           Raise("Exception", <<"The Glue job '", job,
                                "' does not exist. Please check your configuration.">>)
      [] out = "ClientError" ->
           Raise("Exception", <<"AWS Glue service error: ", "backend failure">>)
      [] OTHER -> Raise(out, "backend failure")

start_categorization_job(s3_path, lambda_function_name, out) ==
    /\ out = "ok" => Len(glueRuns) < MaxRuns
    /\ glueRuns' = RunsAfterStart(REGION_NAME, out)
    /\ last' = Called("start_categorization_job",
                      [s3_path |-> s3_path, lambda_function_name |-> lambda_function_name],
                      << StartJobRunCall(REGION_NAME,
                            [S3_FILE_PATH |-> s3_path,
                             LAMBDA_FUNCTION_NAME |-> lambda_function_name], out) >>,
                      LaunchResult(REGION_NAME, out,
                          [message |-> "Categorization Glue job started successfully",
                           jobRunId |-> NewRunId,
                           status |-> "STARTED",
                           segmentedRows |-> <<>>,
                           columns |-> <<>>]))
    /\ UNCHANGED <<table, s3objects, clock>>

\* json.dumps(value): the JSON text of value
JsonDumps(value) == [json_text_of |-> value]

\* the output path of line 74, at the clock reading now
SegmentationOutputPath(now) ==
    <<"s3://data-categorization-temp/segmentation-output/", IsoFormat(now)>>

start_segmentation_job(s3_path, segmentation_criteria, out) ==
    /\ out = "ok" => Len(glueRuns) < MaxRuns
    /\ glueRuns' = RunsAfterStart(REGION_NAME, out)
    /\ last' = Called("start_segmentation_job",
                      [s3_path |-> s3_path, segmentation_criteria |-> segmentation_criteria],
                      << StartJobRunCall(REGION_NAME,
                            [s3_input_path |-> s3_path,
                             s3_output_path |-> SegmentationOutputPath(clock),
                             segmentation_criteria |-> JsonDumps(segmentation_criteria)],
                            out) >>,
                      LaunchResult(REGION_NAME, out,
                          [message |-> "Segmentation Glue job started successfully",
                           jobRunId |-> NewRunId,
                           status |-> "STARTED",
                           segmentationCriteria |-> segmentation_criteria]))
    /\ UNCHANGED <<table, s3objects, clock>>

\* JobStatusResult with the ErrorMessage passed on in every state
JobStatusResult_ErrorInEveryState(job_run_id, r) ==
    CASE r.exc = "NoException" ->
           Ok([jobRunId |-> job_run_id,
               status |-> r.val.state,
               message |-> IF r.val.state \notin {"SUCCEEDED"} \cup TerminalFailures
                           THEN <<"Job is ", Lower(r.val.state)>>
                           ELSE <<"Job ", Lower(r.val.state)>>,
               errorMessage |-> IF r.val.err # NoMessage THEN r.val.err ELSE None])
      [] r.exc = "EntityNotFoundException" ->
           Raise("Exception", <<"The job run '", ToString(job_run_id), "' does not exist.">>)
      [] OTHER ->
           Raise("Exception", <<"Error checking job status: ", r.val>>)

\* what GlueService.get_job_status returns or raises for a get_job_run
\* answered by r
JobStatusResult(job_run_id, r) ==
    CASE r.exc = "NoException" ->
           Ok([jobRunId |-> job_run_id,
               status |-> r.val.state,
               message |-> IF r.val.state \notin {"SUCCEEDED"} \cup TerminalFailures
                           THEN <<"Job is ", Lower(r.val.state)>>
                           ELSE <<"Job ", Lower(r.val.state)>>,
               errorMessage |-> IF r.val.state \in TerminalFailures /\ r.val.err # NoMessage
                                THEN r.val.err ELSE None])
      [] r.exc = "EntityNotFoundException" ->
           Raise("Exception", <<"The job run '", ToString(job_run_id), "' does not exist.">>)
      [] OTHER ->
           Raise("Exception", <<"Error checking job status: ", r.val>>)

svc_get_job_status(job_run_id, job_name, fault) ==
    LET r == GetJobRun(job_name, job_run_id, fault)
    IN  /\ last' = Called("svc_get_job_status",
                          [job_run_id |-> job_run_id, job_name |-> job_name],
                          <<GetJobRunCall(job_name, job_run_id, r)>>,
                          JobStatusResult(job_run_id, r))
        /\ UNCHANGED <<glueRuns, table, s3objects, clock>>

(***************************************************************************)
(* chalicelib/services/dynamodb_service.py                                 *)
(***************************************************************************)
\* f"{file_name}_{timestamp}"
FileId(file_name, timestamp) == <<file_name, "_", timestamp>>

\* the item of lines 39-50, at the clock reading now
CategorizationItem(file_name, categorization_result, script_path, data_count, schema, job_name, now) ==
    [file_id |-> FileId(file_name, IsoFormat(now)),
     file_name |-> file_name,
     timestamp |-> IsoFormat(now),
     job_name |-> job_name,
     suggested_categories |-> Get(categorization_result, "suggested_categories", <<>>),
     reasoning |-> Get(categorization_result, "reasoning", ""),
     segmentation_criteria |-> Get(categorization_result, "segmentation_criteria", <<>>),
     generated_script_path |-> script_path,
     sample_data_count |-> data_count,
     schema |-> schema]

PutItemCall(item, out) == [api |-> "put_item", Item |-> item, outcome |-> out]

\* StoreResult with the failure of put_item logged and not raised
StoreResult_Swallowed(item, out) == Ok(item.file_id)

\* what store_categorization_results returns or raises after a put_item of
\* item answered by out
StoreResult(item, out) ==
    IF out = "ok" THEN Ok(item.file_id)
    ELSE Raise("Exception", <<"Failed to store results in DynamoDB: ", "backend failure">>)

store_categorization_results(file_name, categorization_result, glue_script, script_path, data_count, schema, job_name, out) ==
    LET item == CategorizationItem(file_name, categorization_result, script_path,
                                   data_count, schema, job_name, clock)
    IN  /\ out = "ok" => Cardinality(PutItem(item)) <= MaxItems
        /\ table' = IF out = "ok" THEN PutItem(item) ELSE table
        /\ last' = Called("store_categorization_results",
                          [file_name |-> file_name, job_name |-> job_name,
                           categorization_result |-> categorization_result],
                          <<PutItemCall(item, out)>>,
                          StoreResult(item, out))
        /\ UNCHANGED <<glueRuns, s3objects, clock>>

\* what get_latest_categorization_results returns for a scan answered by
\* scan: the except clause of line 128 returns None
LatestResult(scan) ==
    IF scan.exc # "NoException" THEN Ok(NoneItem)
    ELSE IF scan.val # <<>> THEN Ok(LatestItem(scan.val))
    ELSE Ok(NoneItem)

get_latest_categorization_results(job_name, scan) ==
    /\ scan \in ScanAnswers(job_name)
    /\ last' = Called("get_latest_categorization_results",
                      [job_name |-> job_name],
                      <<ScanCall(job_name, scan)>>,
                      LatestResult(scan))
    /\ UNCHANGED <<glueRuns, table, s3objects, clock>>

\* the scan of the table for the items that have a generated_script_path: a
\* list of them in some order, or a failure
ScriptScanAnswers ==
    { Ok(o) : o \in ScanOrders({i \in table : "generated_script_path" \in DOMAIN i}) }
        \cup { Raise("ClientError", "backend failure") }

ScriptScanCall(r) == [api |-> "scan", attribute_exists |-> "generated_script_path", outcome |-> r.exc]

\* get_latest_segmentation_script: the item with a script of the greatest
\* timestamp, None when there is none or the scan fails; no handler of
\* app.py calls it
get_latest_segmentation_script(scan) ==
    /\ scan \in ScriptScanAnswers
    /\ last' = Called("get_latest_segmentation_script", <<>>,
                      <<ScriptScanCall(scan)>>,
                      LatestResult(scan))
    /\ UNCHANGED <<glueRuns, table, s3objects, clock>>

(***************************************************************************)
(* The API of app.py and its backends.  The table is written through the   *)
(* metadata service.                                                       *)
(***************************************************************************)
\* the answers of a scan that get_job_status can meet: none is asked for
\* when session is unbound
StatusScans ==
    IF SessionDefined THEN ScanAnswers(CATEGORIZATION_GLUE_JOB)
    ELSE { Raise("NameError", "name 'session' is not defined") }

WellFormedPath == S3Scheme \o <<"b", "/", "k">>

\* the categorization result stored beside the handlers
StoredResult ==
    [suggested_categories |-> <<"cat1">>, reasoning |-> "r", segmentation_criteria |-> <<>>]

\* the request reaches start_job_run in categorize: it has a path with the
\* scheme
PassesValidation(p) == ~Falsy(p) /\ StartsWith(p, S3Scheme)

\* the answers of start_job_run that categorize can meet for the path p:
\* none is asked for when validation fails
CategorizeStarts(p) == IF PassesValidation(p) THEN StartOutcomes ELSE {"none"}

\* the answers of head_object that segmentation can meet for the path p
SegmentationHeads(p) ==
    IF PassesValidation(p) /\ BucketKey(p).exc = "NoException"
    THEN HeadOutcomes([Bucket |-> BucketKey(p).val[1], Key |-> BucketKey(p).val[2]])
    ELSE {"none"}

\* the answers of start_job_run that segmentation can meet after head_object
\* answered head
SegmentationStarts(head) == IF head = "ok" THEN StartOutcomes ELSE {"none"}

Next ==
    \/ Tick
    \/ \E i \in DOMAIN glueRuns : GlueRunStarts(i)
    \/ \E i \in DOMAIN glueRuns : GlueRunSucceeds(i)
    \/ \E i \in DOMAIN glueRuns, st \in TerminalFailures, err \in {"boom", NoMessage} :
          GlueRunEndsBadly(i, st, err)
    \/ \E o \in ObjectKeys : ObjectCreated(o)
    \/ \E o \in ObjectKeys : ObjectDeleted(o)
    \/ \E p \in RequestPaths : \E out \in CategorizeStarts(p) : categorize(p, out)
    \/ \E id \in RunIds, fault \in BOOLEAN, scan \in StatusScans :
          get_job_status(id, fault, scan)
    \/ \E p \in RequestPaths : \E head \in SegmentationHeads(p) :
          \E out \in SegmentationStarts(head) : segmentation(p, head, out)
    \/ \E out \in {"ok", "fail"} :
          store_categorization_results("f.csv", StoredResult, "print(1)",
                                       "s3://bucket/script.py", 1, <<"col1">>,
                                       CATEGORIZATION_GLUE_JOB, out)

Spec == Init /\ [][Next]_vars

(***************************************************************************)
(* The metadata service called on its own, over every file name, result    *)
(* and job name.                                                           *)
(***************************************************************************)
NextStore ==
    \/ Tick
    \/ \E f \in FileNames, c \in CategorizationResults, job \in JobNames,
          out \in {"ok", "fail"} :
          store_categorization_results(f, c, "print(1)", "s3://bucket/script.py", 1,
                                       <<"col1">>, job, out)
    \/ \E job \in JobNames :
          \E scan \in ScanAnswers(job) : get_latest_categorization_results(job, scan)
    \/ \E scan \in ScriptScanAnswers : get_latest_segmentation_script(scan)

SpecStore == Init /\ [][NextStore]_vars

(***************************************************************************)
(* Launching and polling job runs, through the handlers of app.py and      *)
(* through the job service, against the job backend.                       *)
(***************************************************************************)
NextGlue ==
    \/ \E i \in DOMAIN glueRuns : GlueRunStarts(i)
    \/ \E i \in DOMAIN glueRuns : GlueRunSucceeds(i)
    \/ \E i \in DOMAIN glueRuns, st \in TerminalFailures, err \in {"boom", NoMessage} :
          GlueRunEndsBadly(i, st, err)
    \/ \E i \in DOMAIN glueRuns : GlueRunReportsError(i, "warned")
    \/ \E p \in RequestPaths : \E out \in CategorizeStarts(p) : categorize(p, out)
    \/ \E id \in RunIds, fault \in BOOLEAN, scan \in StatusScans :
          get_job_status(id, fault, scan)
    \/ \E out \in StartOutcomes :
          start_categorization_job(WellFormedPath, CATEGORIZATION_LAMBDA_FUNCTION_NAME, out)
    \/ \E out \in StartOutcomes :
          start_segmentation_job(WellFormedPath, [cat1 |-> "criteria"], out)
    \/ \E id \in RunIds, job \in JobNames \cup {REGION_NAME}, fault \in BOOLEAN :
          svc_get_job_status(id, job, fault)

SpecGlue == Init /\ [][NextGlue]_vars

(***************************************************************************)
(* The validators called on their own: a pending call is drawn from Paths  *)
(* and the validator is applied to it.                                     *)
(***************************************************************************)
InitValidators ==
    /\ glueRuns = <<>>
    /\ table = {}
    /\ s3objects = {}
    /\ clock = 0
    /\ \E p \in Paths : last = [op |-> "pending", path |-> p]

CallValidateS3Path ==
    /\ last.op = "pending"
    /\ last' = [op |-> "validate_s3_path", path |-> last.path,
                result |-> validate_s3_path(last.path)]
    /\ UNCHANGED <<glueRuns, table, s3objects, clock>>

NextValidators == CallValidateS3Path

SpecValidators == InitValidators /\ [][NextValidators]_vars

(***************************************************************************)
(* Claims about launching and polling job runs.                            *)
(***************************************************************************)
\* the four fields of a started categorization run, as the backend call c
\* answered them
StartedFields(body, c) ==
    /\ {"jobRunId", "status", "segmentedRows", "columns"} \subseteq DOMAIN body
    /\ body.jobRunId = c.JobRunId
    /\ body.status = "STARTED"
    /\ body.segmentedRows = <<>>
    /\ body.columns = <<>>

\* C1: POST /categorize with an s3FilePath that starts with "s3://" calls
\* start_job_run once and, when the backend returns run id r, responds 200
\* with jobRunId = r, status = "STARTED", segmentedRows = [] and columns = [];
\* GlueService.start_categorization_job returns the same four fields for the
\* same backend answer.
C1_StartedRunIsReported ==
    /\ (/\ last.op = "categorize"
        /\ last.req # NonePath
        /\ StartsWith(last.req, S3Scheme))
       => /\ Len(last.calls) = 1
          /\ last.calls[1].api = "start_job_run"
          /\ last.calls[1].outcome = "ok"
             => /\ last.resp.status_code = 200
                /\ StartedFields(last.resp.body, last.calls[1])
    /\ (/\ last.op = "start_categorization_job"
        /\ last.calls[1].outcome = "ok")
       => /\ last.result.exc = "NoException"
          /\ StartedFields(last.result.val, last.calls[1])

\* POST /categorize answered 200 for the run the backend started
C1_Witness ==
    /\ last.op = "categorize"
    /\ last.req = S3Scheme \o <<"b", "/", "k">>
    /\ last.resp.status_code = 200
    /\ last.resp.body.jobRunId = 1
    /\ Len(glueRuns) = 1

\* C2: for POST /categorize and POST /segmentation, whenever the s3FilePath
\* is absent, falsy or does not start with "s3://", the response has status
\* 400 and the request made no backend call.
C2_InvalidRequestReachesNoBackend ==
    (/\ last.op \in {"categorize", "segmentation"}
     /\ \/ last.req = NonePath
        \/ last.req = <<>>
        \/ ~StartsWith(last.req, S3Scheme))
    => /\ last.resp.status_code = 400
       /\ last.calls = <<>>

\* POST /segmentation refused a path without the scheme
C2_Witness ==
    /\ last.op = "segmentation"
    /\ last.req = <<"b", "/", "k">>
    /\ last.resp.status_code = 400
    /\ last.calls = <<>>

\* the lower-cased name of a terminal failure state
FailureWord(state) ==
    IF state = "FAILED" THEN "failed"
    ELSE IF state = "STOPPED" THEN "stopped" ELSE "timeout"

\* C5: GET /job-status for a run the backend reports FAILED, STOPPED or
\* TIMEOUT responds 500 with the body {error: "Job " + lower-cased state,
\* details: the backend's ErrorMessage, type: "glue"}.
C5_FailedRunIs500Glue ==
    (/\ last.op = "get_job_status"
     /\ last.calls[1].outcome = "NoException"
     /\ last.calls[1].JobRun.state \in {"FAILED", "STOPPED", "TIMEOUT"})
    => /\ last.resp.status_code = 500
       /\ DOMAIN last.resp.body = {"error", "details", "type"}
       /\ last.resp.body.error = <<"Job ", FailureWord(last.calls[1].JobRun.state)>>
       /\ last.resp.body.type = "glue"
       /\ last.calls[1].JobRun.err # NoMessage
          => last.resp.body.details = last.calls[1].JobRun.err

\* the run FAILED with ErrorMessage "boom" was reported
C5_Witness ==
    /\ last.op = "get_job_status"
    /\ last.calls[1].outcome = "NoException"
    /\ last.calls[1].JobRun.state = "FAILED"
    /\ last.resp =
          Response([error |-> <<"Job ", "failed">>, details |-> "boom", type |-> "glue"], 500)

\* C6: when the backend does not know the job run, the handler responds 404,
\* and GlueService.get_job_status raises an error of a class other than the
\* one it raises for a failure of the backend call.
C6_NotFoundIsDistinct ==
    /\ (/\ last.op = "get_job_status"
        /\ last.calls[1].outcome = "EntityNotFoundException")
       => last.resp.status_code = 404
    /\ (/\ last.op = "svc_get_job_status"
        /\ last.calls[1].outcome = "EntityNotFoundException")
       => /\ last.result.exc # "NoException"
          /\ last.result.exc #
                JobStatusResult(last.args.job_run_id,
                                Raise("ClientError", "backend failure")).exc

(***************************************************************************)
(* Claims about the results a succeeded run is answered with.              *)
(***************************************************************************)
\* a < b in the order of texts: at the first place where they differ a has
\* the smaller character, or a ends there
TextLess(a, b) ==
    \E k \in 1..Len(b) :
        /\ \A j \in 1..(k - 1) : j <= Len(a) /\ a[j] = b[j]
        /\ k > Len(a) \/ a[k] < b[k]

\* the stored records with the given job name
RecordsOf(job_name) == {i \in table : i.job_name = job_name}

\* r has the greatest timestamp among the records of S
IsLatestOf(r, S) == r \in S /\ \A q \in S : ~TextLess(r.timestamp, q.timestamp)

\* a step of GET /job-status for the run id, reported SUCCEEDED by the backend
SucceededStatusStep(id) ==
    /\ \E scan \in StatusScans : get_job_status(id, FALSE, scan)
    /\ id \in DOMAIN glueRuns
    /\ glueRuns[id].job = CATEGORIZATION_GLUE_JOB
    /\ glueRuns[id].state = "SUCCEEDED"

\* C7: GET /job-status for a run in state SUCCEEDED, when the table holds
\* at least one record for the categorization job name, responds with the
\* suggested categories and the script path of the record with the greatest
\* timestamp among them.
C7_SucceededReturnsLatestRecord ==
    [][ \A id \in RunIds :
          (SucceededStatusStep(id) /\ RecordsOf(CATEGORIZATION_GLUE_JOB) # {})
          => \E r \in RecordsOf(CATEGORIZATION_GLUE_JOB) :
                /\ IsLatestOf(r, RecordsOf(CATEGORIZATION_GLUE_JOB))
                /\ {"suggestedCategories", "generatedScriptPath"}
                      \subseteq DOMAIN last'.resp.body
                /\ last'.resp.body.suggestedCategories = r.suggested_categories
                /\ last'.resp.body.generatedScriptPath = r.generated_script_path
      ]_vars

\* C8: GET /job-status for a run in state SUCCEEDED, when the table holds no
\* record for the job name, responds 200 with the message that the job
\* completed but no results were found, and empty segmentedRows and columns.
C8_SucceededWithoutRecords ==
    [][ \A id \in RunIds :
          (SucceededStatusStep(id) /\ RecordsOf(CATEGORIZATION_GLUE_JOB) = {})
          => /\ last'.resp.status_code = 200
             /\ last'.resp.body.message = "Job completed successfully but no results found"
             /\ last'.resp.body.segmentedRows = <<>>
             /\ last'.resp.body.columns = <<>>
      ]_vars

(***************************************************************************)
(* Claims about the metadata service.                                      *)
(***************************************************************************)
\* C9: get_latest_categorization_results(jobName), whose scan the backend
\* answers, returns a stored record with jobName whose timestamp no other
\* stored record with jobName exceeds in the order of texts, and None when
\* no stored record has jobName.
C9_LatestIsMaximumTimestamp ==
    [][ \A job \in JobNames :
          (\E scan \in ScanAnswers(job) :
              scan.exc = "NoException" /\ get_latest_categorization_results(job, scan))
          => IF RecordsOf(job) = {}
             THEN last'.result = Ok(NoneItem)
             ELSE /\ last'.result.exc = "NoException"
                  /\ IsLatestOf(last'.result.val, RecordsOf(job))
      ]_vars

\* the later of two records of a job was returned
C9_Witness ==
    /\ last.op = "get_latest_categorization_results"
    /\ last.result.val # NoneItem
    /\ last.result.val.timestamp = <<0, 1>>
    /\ \E q \in RecordsOf(last.args.job_name) : q.timestamp = <<0, 0>>

\* C10: store_categorization_results makes exactly one put_item call; the
\* item has the file name given, a file_id equal to fileName + "_" + the
\* item's timestamp, and when the write succeeds it is in the table and its
\* file_id is returned; when the write fails the call raises and returns no
\* fileId.
C10_StoreWritesOneRecord ==
    last.op = "store_categorization_results"
    => /\ Len(last.calls) = 1
       /\ last.calls[1].api = "put_item"
       /\ last.calls[1].Item.file_name = last.args.file_name
       /\ last.calls[1].Item.file_id =
             <<last.args.file_name, "_", last.calls[1].Item.timestamp>>
       /\ last.calls[1].outcome = "ok"
          => /\ last.result = Ok(last.calls[1].Item.file_id)
             /\ last.calls[1].Item \in table
       /\ last.calls[1].outcome # "ok" => last.result.exc # "NoException"

\* a record was written and its fileId returned
C10_Witness ==
    /\ last.op = "store_categorization_results"
    /\ last.result = Ok(<<"f.csv", "_", <<0, 1>>>>)
    /\ Cardinality(table) = 2

(***************************************************************************)
(* Claims about validate_s3_path, checked under SpecValidators.            *)
(***************************************************************************)
\* the path has a "/" somewhere after its five-character scheme
HasSlashAfterScheme(p) == \E i \in (Len(S3Scheme) + 1)..Len(p) : p[i] = "/"

\* C3: validate_s3_path raises ValidationError, and no other exception
\* class, for every path that is empty, does not start with "s3://", or has
\* no "/" after the scheme.
C3_InvalidPathRaisesValidationError ==
    (/\ last.op = "validate_s3_path"
     /\ \/ last.path = <<>>
        \/ ~StartsWith(last.path, S3Scheme)
        \/ ~HasSlashAfterScheme(last.path))
    => last.result.exc = "ValidationError"

\* the case of C3 that needs the except clause: "s3://b" was validated
C3_Witness ==
    /\ last.op = "validate_s3_path"
    /\ last.path = S3Scheme \o <<"b">>
    /\ last.result.exc = "ValidationError"

\* C4: for every path "s3://" + b + "/" + k with b non-empty and without
\* "/", validate_s3_path returns exactly (b, k).
C4_SplitsOnFirstSlashOnly ==
    last.op = "validate_s3_path" =>
        \A i \in (Len(S3Scheme) + 2)..Len(last.path) :
            (/\ StartsWith(last.path, S3Scheme)
             /\ last.path[i] = "/"
             /\ \A j \in (Len(S3Scheme) + 1)..(i - 1) : last.path[j] # "/")
            => last.result = Ok(<<SubSeq(last.path, Len(S3Scheme) + 1, i - 1),
                                  SubSeq(last.path, i + 1, Len(last.path))>>)

(***************************************************************************)
(* Claims about the lifetime of the stored records.                        *)
(***************************************************************************)
\* C11: a record is immutable once written: every record that the table
\* holds is still in the table, unchanged, after any further store, also
\* after a store for the same file name at the same clock reading.
C11_WrittenRecordsStay == [][\A i \in table : i \in table']_vars

(***************************************************************************)
(* Texts of the inference backend.  A completion is a sequence of          *)
(* characters; in a categorization completion "k" stands for the text of a *)
(* member name with its colon, "suggested_categories":, and "v" for the    *)
(* text of the list ["cat1"]; "t" is a character of prose.                 *)
(***************************************************************************)
\* longest categorization completion, in characters
MaxCompletion == 5

\* longest script completion, in tokens of ScriptTokens
MaxScriptTokens == 5

\* longest schema, in columns
MaxSchema == 4

\* most rows of sample data in an event
MaxRows == 6

\* s.find(ch) and s.rfind(ch): the first and the last index, counted from 0,
\* or -1
Find(s, ch) ==
    LET idx == {i \in 1..Len(s) : s[i] = ch}
    IN  IF idx = {} THEN -1 ELSE (CHOOSE i \in idx : \A j \in idx : i <= j) - 1

RFind(s, ch) ==
    LET idx == {i \in 1..Len(s) : s[i] = ch}
    IN  IF idx = {} THEN -1 ELSE (CHOOSE i \in idx : \A j \in idx : i >= j) - 1

\* s[a:b] for a >= 0 and b >= 0
Slice(s, a, b) == SubSeq(s, a + 1, IF b < Len(s) THEN b ELSE Len(s))

\* the dict {}
EmptyDict == <<>>

\* the JSON value that starts at s[i]: the list "v", the object "{}" or an
\* object "{" "k" value "}" of one member; next is the index after it
NotJson == [ok |-> FALSE, val |-> EmptyDict, next |-> 0]

RECURSIVE ParseValue(_, _)
ParseValue(s, i) ==
    IF i > Len(s) THEN NotJson
    ELSE IF s[i] = "v" THEN [ok |-> TRUE, val |-> <<"cat1">>, next |-> i + 1]
    ELSE IF s[i] # "{" \/ i + 1 > Len(s) THEN NotJson
    ELSE IF s[i + 1] = "}" THEN [ok |-> TRUE, val |-> EmptyDict, next |-> i + 2]
    ELSE IF s[i + 1] # "k" THEN NotJson
    ELSE LET m == ParseValue(s, i + 2)
         IN  IF m.ok /\ m.next <= Len(s) /\ s[m.next] = "}"
             THEN [ok |-> TRUE, val |-> [suggested_categories |-> m.val],
                   next |-> m.next + 1]
             ELSE NotJson

\* json.loads(s): the value that s is the text of, all of s
JsonLoads(s) ==
    LET r == ParseValue(s, 1)
    IN  IF r.ok /\ r.next = Len(s) + 1 THEN Ok(r.val)
        ELSE Raise("JSONDecodeError", "Expecting value")

\* the completions of the categorization call
JsonChars == {"{", "}", "k", "v", "t"}

Completions == UNION { [1..n -> JsonChars] : n \in 0..MaxCompletion }

\* the schemas of an event: the first n columns
Columns == <<"col1", "col2", "col3", "col4", "col5", "col6">>

Schemas == { SubSeq(Columns, 1, n) : n \in 0..MaxSchema }

(***************************************************************************)
(* chalicelib/services/bedrock_service.py                                  *)
(***************************************************************************)
\* what invoke_model can answer
InvokeOutcomes == {"ok", "ClientError"}

\* sample_data[:5]
FirstFive(sample_data) ==
    SubSeq(sample_data, 1, IF Len(sample_data) < 5 THEN Len(sample_data) ELSE 5)

\* bedrock_client.invoke_model for the prompt built from args, answered by
\* out
InvokeModelCall(modelId, template, args, out) ==
    [api |-> "invoke_model", modelId |-> modelId, template |-> template,
     args |-> args, outcome |-> out]

\* what _extract_json_from_response returns or raises
ExtractResult(completion) ==
    LET start_idx == Find(completion, "{")
        end_idx == RFind(completion, "}") + 1
    IN  IF start_idx # -1 /\ end_idx # -1
        THEN LET r == JsonLoads(Slice(completion, start_idx, end_idx))
             IN  IF r.exc = "JSONDecodeError"
                 THEN Raise("Exception",
                            <<"Failed to parse JSON from Bedrock response: ", r.val>>)
                 ELSE r
        ELSE Raise("ValueError", "No JSON found in response")

FallbackReasoning == "Fallback categorization based on available columns"

\* the fallback with the whole schema
FallbackResult_WholeSchema(schema) ==
    [suggested_categories |-> schema,
     reasoning |-> FallbackReasoning,
     segmentation_criteria |-> EmptyDict]

\* the dict of lines 121-125
FallbackResult(schema) ==
    [suggested_categories |-> IF Len(schema) >= 3 THEN SubSeq(schema, 1, 3) ELSE schema,
     reasoning |-> FallbackReasoning,
     segmentation_criteria |-> EmptyDict]

\* what categorize_data returns or raises for an invoke_model answered by
\* out with the text completion
CategorizeDataResult(schema, out, completion) ==
    IF out # "ok"
    THEN Raise("Exception", <<"Error in categorization: ", "backend failure">>)
    ELSE LET r == ExtractResult(completion)
         IN  IF r.exc # "NoException" THEN Ok(FallbackResult(schema)) ELSE r

\* self.model_id of line 16
ModelId(region_name) ==
    <<"arn:aws:bedrock:", region_name,
      ":475453938538:inference-profile/eu.anthropic.claude-3-5-sonnet-20240620-v1:0">>

(***************************************************************************)
(* Script completions: sequences of characters, made of code fences with   *)
(* and without the word python, line ends and a character of code.         *)
(***************************************************************************)
\* the backtick character
Backtick == "backtick"

Fence == <<Backtick, Backtick, Backtick>>

FencePython == Fence \o <<"p", "y", "t", "h", "o", "n">>

Whitespace == {" ", "\n"}

ScriptTokens == { FencePython, Fence, <<"\n">>, <<"x">> }

ScriptTexts ==
    { Flatten(ts) : ts \in UNION { [1..n -> ScriptTokens] : n \in 0..MaxScriptTokens } }

\* s.endswith(p)
EndsWith(s, p) == Len(s) >= Len(p) /\ SubSeq(s, Len(s) - Len(p) + 1, Len(s)) = p

\* s.strip()
RECURSIVE LStrip(_)
LStrip(s) == IF s # <<>> /\ Head(s) \in Whitespace THEN LStrip(Tail(s)) ELSE s

RECURSIVE RStrip(_)
RStrip(s) ==
    IF s # <<>> /\ s[Len(s)] \in Whitespace THEN RStrip(SubSeq(s, 1, Len(s) - 1)) ELSE s

Strip(s) == RStrip(LStrip(s))

\* the cleanup with no strip after the fences are removed
CleanScript_NoFinalStrip(script_completion) ==
    LET stripped == Strip(script_completion)
        opened == IF StartsWith(stripped, FencePython)
                  THEN SubSeq(stripped, 10, Len(stripped)) ELSE stripped
    IN  IF EndsWith(opened, Fence) THEN SubSeq(opened, 1, Len(opened) - 3) ELSE opened

\* lines 169-174: strip, glue_script[9:] after a leading fence with the word
\* python, glue_script[:-3] before a trailing fence, strip
CleanScript(script_completion) ==
    LET stripped == Strip(script_completion)
        opened == IF StartsWith(stripped, FencePython)
                  THEN SubSeq(stripped, 10, Len(stripped)) ELSE stripped
        closed == IF EndsWith(opened, Fence)
                  THEN SubSeq(opened, 1, Len(opened) - 3) ELSE opened
    IN  Strip(closed)

\* what generate_glue_script returns or raises for an invoke_model answered
\* by out with the text script_completion
GenerateScriptResult(out, script_completion) ==
    IF out # "ok"
    THEN Raise("Exception", <<"Error generating Glue script: ", "backend failure">>)
    ELSE Ok(CleanScript(script_completion))

(***************************************************************************)
(* The inference service called on its own: a pending call holds the text  *)
(* the backend will answer with.                                           *)
(***************************************************************************)
BackendTexts == Completions \cup ScriptTexts

Pending(text) == [op |-> "pending", text |-> text]

InitBedrock ==
    /\ glueRuns = <<>>
    /\ table = {}
    /\ s3objects = {}
    /\ clock = 0
    /\ \E text \in BackendTexts : last = Pending(text)

categorize_data(sample_data, schema, file_name, out) ==
    /\ last.op = "pending"
    /\ last' = Called("categorize_data",
                      [sample_data |-> sample_data, schema |-> schema,
                       file_name |-> file_name, completion |-> last.text],
                      << InvokeModelCall(ModelId(REGION_NAME), "categorization",
                            [sample_data |-> FirstFive(sample_data), schema |-> schema],
                            out) >>,
                      CategorizeDataResult(schema, out, last.text))
    /\ UNCHANGED <<glueRuns, table, s3objects, clock>>

generate_glue_script(schema, categories, criteria, sample_data, out) ==
    /\ last.op = "pending"
    /\ last' = Called("generate_glue_script",
                      [schema |-> schema, categories |-> categories,
                       script_completion |-> last.text],
                      << InvokeModelCall(ModelId(REGION_NAME), "script_generation",
                            [schema |-> schema, categories |-> categories,
                             criteria |-> criteria,
                             sample_data |-> FirstFive(sample_data)],
                            out) >>,
                      GenerateScriptResult(out, last.text))
    /\ UNCHANGED <<glueRuns, table, s3objects, clock>>
(***************************************************************************)
(* app.py: the Lambda function data-categorization-bedrock-api             *)
(***************************************************************************)
\* an event that is not a JSON object
NotADict == [not_a_dict |-> TRUE]

\* the rows of sample data of an event
Rows == <<"row1", "row2", "row3", "row4", "row5", "row6", "row7">>

\* the events: not an object, without data, with no row of data, with one
\* row and every schema, and with MaxRows rows
Events ==
    { NotADict,
      [schema |-> <<>>, file_name |-> "f.csv"],
      [data |-> <<>>, schema |-> <<>>, file_name |-> "f.csv"],
      [data |-> SubSeq(Rows, 1, MaxRows), schema |-> SubSeq(Columns, 1, MaxSchema),
       file_name |-> "f.csv"] }
        \cup { [data |-> <<"row1">>, schema |-> sch, file_name |-> "f.csv"] : sch \in Schemas }

\* the script completions the entry point is answered with
ScriptSamples ==
    { FencePython \o <<"\n", "x", "\n">> \o Fence, <<"x">> }

\* the payload of the except clause of lines 501-506
ErrorPayload(message) == [error |-> "Internal server error", message |-> message]

\* lines 400-418: the parsed object, the fallback on JSONDecodeError, or
\* the ValueError of line 409, which the except clause does not name
EntryParseResult(schema, completion) ==
    LET start_idx == Find(completion, "{")
        end_idx == RFind(completion, "}") + 1
    IN  IF start_idx # -1 /\ end_idx # -1
        THEN LET r == JsonLoads(Slice(completion, start_idx, end_idx))
             IN  IF r.exc = "JSONDecodeError" THEN Ok(FallbackResult(schema)) ELSE r
        ELSE Raise("ValueError", "No JSON found in response")

\* the key and the path of the script, lines 463-464
ScriptKey(timestamp) == <<"glue-scripts/segmentation-script-", timestamp, ".py">>

ScriptPath(timestamp) == <<"s3://data-categorization-temp/", ScriptKey(timestamp)>>

ScriptObject(timestamp) ==
    [Bucket |-> "data-categorization-temp", Key |-> ScriptKey(timestamp)]

\* the item of lines 467-478
EntryItem(file_name, data, schema, categorization_result, timestamp) ==
    [file_id |-> FileId(file_name, timestamp),
     file_name |-> file_name,
     timestamp |-> timestamp,
     job_name |-> CATEGORIZATION_GLUE_JOB,
     suggested_categories |-> Get(categorization_result, "suggested_categories", <<>>),
     reasoning |-> Get(categorization_result, "reasoning", ""),
     segmentation_criteria |-> Get(categorization_result, "segmentation_criteria", EmptyDict),
     generated_script_path |-> ScriptPath(timestamp),
     sample_data_count |-> Len(data),
     schema |-> schema]

PutObjectCall(o, body, out) ==
    [api |-> "put_object", Bucket |-> o.Bucket, Key |-> o.Key, Body |-> body,
     outcome |-> out]

\* the payload of lines 491-499
SuccessPayload(categorization_result, glue_script, timestamp, file_name) ==
    [suggested_categories |-> Get(categorization_result, "suggested_categories", <<>>),
     reasoning |-> Get(categorization_result, "reasoning", ""),
     segmentation_criteria |-> Get(categorization_result, "segmentation_criteria", EmptyDict),
     generated_glue_script |-> glue_script,
     s3_script_path |-> ScriptPath(timestamp),
     file_id |-> FileId(file_name, timestamp),
     message |-> "Categorization completed successfully"]

\* an outcome of the entry point: the backend calls made, the value
\* returned, the items written and the objects uploaded
EntryOutcome(calls, payload, written, uploaded) ==
    [calls |-> calls, result |-> Ok(payload), written |-> written, uploaded |-> uploaded]

\* lines 454-499, after both completions are in hand
EntryStore(calls, event, categorization_result, glue_script, putOut, upOut, now) ==
    LET data == Get(event, "data", <<>>)
        schema == Get(event, "schema", <<>>)
        file_name == Get(event, "file_name", "unknown")
        timestamp == IsoFormat(now)
        item == EntryItem(file_name, data, schema, categorization_result, timestamp)
        put == PutItemCall(item, putOut)
        upload == PutObjectCall(ScriptObject(timestamp), glue_script, upOut)
    IN  IF ~SessionDefined
        THEN EntryOutcome(calls, ErrorPayload("name 'session' is not defined"), {}, {})
        ELSE IF putOut # "ok"
        THEN EntryOutcome(calls \o <<put>>, ErrorPayload("backend failure"), {}, {})
        ELSE IF upOut # "ok"
        THEN EntryOutcome(calls \o <<put, upload>>, ErrorPayload("backend failure"),
                          {item}, {})
        ELSE EntryOutcome(calls \o <<put, upload>>,
                          SuccessPayload(categorization_result, glue_script, timestamp,
                                         file_name),
                          {item}, {ScriptObject(timestamp)})

\* the entry point with the except clause of lines 501-506 re-raising
CategorizeWithBedrock_Reraised(event, completion, out1, script_completion, out2, putOut, upOut, now) ==
    [calls |-> <<>>, result |-> Raise("Exception", "backend failure"),
     written |-> {}, uploaded |-> {}]

\* lines 359-506 for an event, the two completions and the answers of the
\* four backend calls
CategorizeWithBedrock(event, completion, out1, script_completion, out2, putOut, upOut, now) ==
    IF event = NotADict
    THEN EntryOutcome(<<>>, ErrorPayload("object has no attribute 'get'"), {}, {})
    ELSE
    LET data == Get(event, "data", <<>>)
        schema == Get(event, "schema", <<>>)
        call1 == InvokeModelCall("anthropic.claude-3-5-sonnet-20240620-v1:0",
                                 "categorization",
                                 [sample_data |-> FirstFive(data), schema |-> schema], out1)
        parsed == EntryParseResult(schema, completion)
        call2 == InvokeModelCall("anthropic.claude-3-sonnet-20240229-v1:0",
                                 "script_generation",
                                 [schema |-> schema,
                                  categories |-> Get(parsed.val, "suggested_categories", <<>>),
                                  criteria |-> Get(parsed.val, "segmentation_criteria", EmptyDict),
                                  sample_data |-> FirstFive(data)], out2)
    IN  IF data = <<>>
        THEN EntryOutcome(<<>>, [error |-> "No data provided",
                                 message |-> "Sample data is required for categorization"],
                          {}, {})
        ELSE IF out1 # "ok"
        THEN EntryOutcome(<<call1>>, ErrorPayload("backend failure"), {}, {})
        ELSE IF parsed.exc # "NoException"
        THEN EntryOutcome(<<call1>>, ErrorPayload(parsed.val), {}, {})
        ELSE IF out2 # "ok"
        THEN EntryOutcome(<<call1, call2>>, ErrorPayload("backend failure"), {}, {})
        ELSE EntryStore(<<call1, call2>>, event, parsed.val,
                        CleanScript(script_completion), putOut, upOut, now)

categorize_with_bedrock(event, out1, script_completion, out2, putOut, upOut) ==
    LET o == CategorizeWithBedrock(event, last.text, out1, script_completion, out2,
                                   putOut, upOut, clock)
    IN  /\ last.op = "pending"
        /\ last' = Called("categorize_with_bedrock",
                          [event |-> event, completion |-> last.text,
                           script_completion |-> script_completion],
                          o.calls, o.result)
        /\ table' = {i \in table : \A w \in o.written : i.file_id # w.file_id}
                        \cup o.written
        /\ s3objects' = s3objects \cup o.uploaded
        /\ UNCHANGED <<glueRuns, clock>>

\* the answers that the calls after the first invoke_model can meet: one
\* combination stands for the calls that are not reached
LaterAnswers ==
    { <<s, o2, p, u>> \in ScriptSamples \X InvokeOutcomes \X {"ok", "fail"} \X {"ok", "fail"} :
        /\ o2 # "ok" => (s = <<"x">> /\ p = "ok" /\ u = "ok")
        /\ ~SessionDefined => (p = "ok" /\ u = "ok")
        /\ p # "ok" => u = "ok" }

NextBedrock ==
    \/ \E sch \in Schemas, out \in InvokeOutcomes :
          categorize_data(<<"row1">>, sch, "f.csv", out)
    \/ \E out \in InvokeOutcomes :
          generate_glue_script(<<"col1">>, <<"cat1">>, EmptyDict, <<"row1">>, out)
    \/ \E ev \in Events, out1 \in InvokeOutcomes, a \in LaterAnswers :
          categorize_with_bedrock(ev, out1, a[1], a[2], a[3], a[4])

SpecBedrock == InitBedrock /\ [][NextBedrock]_vars

(***************************************************************************)
(* Claims about the inference adapter, checked under SpecBedrock.          *)
(***************************************************************************)
\* the places <<a, b>> of a completion where a JSON object stands with no
\* brace before it or after it
JsonBlocks(c) ==
    { ab \in (1..Len(c)) \X (1..Len(c)) :
        /\ ab[1] <= ab[2]
        /\ c[ab[1]] = "{"
        /\ \A i \in 1..Len(c) : (i < ab[1] \/ i > ab[2]) => c[i] \notin {"{", "}"}
        /\ JsonLoads(SubSeq(c, ab[1], ab[2])).exc = "NoException" }

\* the object of the one JSON block of a completion
BlockValue(c) ==
    LET ab == CHOOSE x \in JsonBlocks(c) : TRUE
    IN  JsonLoads(SubSeq(c, ab[1], ab[2])).val

NoOpenBrace(c) == \A i \in 1..Len(c) : c[i] # "{"

\* the first three columns of a schema, or all of a shorter one
FirstColumns(schema) ==
    [i \in 1..(IF Len(schema) < 3 THEN Len(schema) ELSE 3) |-> schema[i]]

\* the fallback structure for a schema
ExpectedFallback(schema) ==
    [suggested_categories |-> FirstColumns(schema),
     reasoning |-> "Fallback categorization based on available columns",
     segmentation_criteria |-> <<>>]

\* the entry point received the categorization completion
EntryHasCompletion ==
    /\ last.op = "categorize_with_bedrock"
    /\ last.calls # <<>>
    /\ last.calls[1].outcome = "ok"

\* C12: for a completion with exactly one balanced block of valid JSON the
\* categorization result is the parsed object, and for a completion without
\* "{" it is the fallback structure and no error, in categorize_data and in
\* categorize_with_bedrock, which goes on to the script with that result.
C12_ExtractionOrFallback ==
    /\ (last.op = "categorize_data" /\ last.calls[1].outcome = "ok")
       => /\ JsonBlocks(last.args.completion) # {}
             => last.result = Ok(BlockValue(last.args.completion))
          /\ NoOpenBrace(last.args.completion)
             => last.result = Ok(ExpectedFallback(last.args.schema))
    /\ EntryHasCompletion
       => /\ JsonBlocks(last.args.completion) # {}
             => /\ Len(last.calls) >= 2
                /\ last.calls[2].args.categories =
                      Get(BlockValue(last.args.completion), "suggested_categories", <<>>)
          /\ NoOpenBrace(last.args.completion)
             => /\ Len(last.calls) >= 2
                /\ last.calls[2].args.categories = FirstColumns(last.args.event.schema)

\* C13: the fallback result is exactly the first three schema columns (the
\* whole schema when shorter), the fixed reasoning and an empty mapping, for
\* every schema length, and it is returned, not raised.
C13_FallbackIsFirstThreeColumns ==
    /\ (/\ last.op = "categorize_data"
        /\ last.calls[1].outcome = "ok"
        /\ \/ NoOpenBrace(last.args.completion)
           \/ Get(last.result.val, "reasoning", "") =
                 "Fallback categorization based on available columns")
       => /\ last.result.exc = "NoException"
          /\ last.result.val = ExpectedFallback(last.args.schema)
    /\ (/\ EntryHasCompletion
        /\ ~NoOpenBrace(last.args.completion)
        /\ \A i \in 1..Len(last.args.completion) : last.args.completion[i] # "}")
       => /\ Len(last.calls) >= 2
          /\ last.calls[2].args.categories = FirstColumns(last.args.event.schema)
          /\ last.calls[2].args.criteria = <<>>

\* the fallback of a schema of four columns was returned
C13_Witness ==
    /\ last.op = "categorize_data"
    /\ last.args.schema = <<"col1", "col2", "col3", "col4">>
    /\ last.args.completion = <<"t", "t">>
    /\ last.result.exc = "NoException"
    /\ last.result.val.suggested_categories = <<"col1", "col2", "col3">>

\* a text without its leading and trailing whitespace
Trimmed(t) ==
    LET ink == {i \in 1..Len(t) : t[i] \notin {" ", "\n"}}
    IN  IF ink = {} THEN <<>>
        ELSE SubSeq(t, CHOOSE i \in ink : \A j \in ink : i <= j,
                       CHOOSE i \in ink : \A j \in ink : i >= j)

\* the nine characters of a fence with the word python, and the three of a
\* fence
OpeningMarker == <<"backtick", "backtick", "backtick", "p", "y", "t", "h", "o", "n">>

ClosingMarker == <<"backtick", "backtick", "backtick">>

\* t without one marker at its start, and without one at its end
WithoutOpening(t) ==
    IF Len(t) >= 9 /\ SubSeq(t, 1, 9) = OpeningMarker THEN SubSeq(t, 10, Len(t)) ELSE t

WithoutClosing(t) ==
    IF Len(t) >= 3 /\ SubSeq(t, Len(t) - 2, Len(t)) = ClosingMarker
    THEN SubSeq(t, 1, Len(t) - 3) ELSE t

\* C14: generate_glue_script returns the backend text trimmed, without one
\* leading fence with the word python and one trailing fence when present,
\* and trimmed again: the fenced text of print(1) yields print(1), and a text
\* without the markers is returned trimmed and otherwise unchanged.
C14_ScriptCleanup ==
    (last.op = "generate_glue_script" /\ last.calls[1].outcome = "ok")
    => LET t == Trimmed(last.args.script_completion)
       IN  /\ last.result = Ok(Trimmed(WithoutClosing(WithoutOpening(t))))
           /\ (WithoutOpening(t) = t /\ WithoutClosing(t) = t) => last.result = Ok(t)
           /\ last.args.script_completion =
                 OpeningMarker \o <<"\n", "x", "\n">> \o ClosingMarker
              => last.result = Ok(<<"x">>)

\* the fenced script was cleaned
C14_Witness ==
    /\ last.op = "generate_glue_script"
    /\ last.args.script_completion = OpeningMarker \o <<"\n", "x", "\n">> \o ClosingMarker
    /\ last.result = Ok(<<"x">>)

\* C15: categorize_with_bedrock never raises: it returns a value for every
\* event and every failure of a backend, and unless that value is the
\* success payload its keys are error and message.
C15_EntryPointNeverRaises ==
    last.op = "categorize_with_bedrock"
    => /\ last.result.exc = "NoException"
       /\ \/ DOMAIN last.result.val = {"error", "message"}
          \/ /\ last.result.val.message = "Categorization completed successfully"
             /\ \A i \in 1..Len(last.calls) : last.calls[i].outcome = "ok"

\* a failure of the second inference call was returned as a payload
C15_Witness ==
    /\ last.op = "categorize_with_bedrock"
    /\ Len(last.calls) = 2
    /\ last.calls[2].outcome = "ClientError"
    /\ last.result.exc = "NoException"
    /\ DOMAIN last.result.val = {"error", "message"}

\* C16: categorize_with_bedrock, invoked with data and with both inference
\* calls (the first answering a JSON object), the write and the upload
\* succeeding, returns the success payload,
\* and afterwards the table holds a record with its file_id and the object
\* store holds the script at its script path.
C16_SuccessStoresRecordAndScript ==
    [][ \A ev \in Events, s \in ScriptSamples :
          (/\ Get(ev, "data", <<>>) # <<>>
           /\ last.op = "pending"
           /\ JsonBlocks(last.text) # {}
           /\ categorize_with_bedrock(ev, "ok", s, "ok", "ok", "ok"))
          => /\ last'.result.val.message = "Categorization completed successfully"
             /\ \E i \in table' :
                   /\ i.file_id = last'.result.val.file_id
                   /\ i.generated_script_path = last'.result.val.s3_script_path
                   /\ \E o \in s3objects' :
                         i.generated_script_path = <<"s3://data-categorization-temp/", o.Key>>
      ]_vars

(***************************************************************************)
(* Claims about errors and backend calls.                                  *)
(***************************************************************************)
\* C17: every error response of the handlers of /categorize, /job-status
\* and /segmentation has the fields error, details and type, with type one
\* of validation, glue, s3 and server.
C17_ErrorBodiesAreTyped ==
    (/\ last.op \in {"categorize", "get_job_status", "segmentation"}
     /\ last.resp.status_code >= 400)
    => /\ {"error", "details", "type"} \subseteq DOMAIN last.resp.body
       /\ last.resp.body.type \in {"validation", "glue", "s3", "server"}

\* the operation made backend calls and one of them failed
SomeCallFailed ==
    /\ "calls" \in DOMAIN last
    /\ \E i \in 1..Len(last.calls) : last.calls[i].outcome \notin {"ok", "NoException"}

\* the operation ended with an error response or a raised error
EndedInError ==
    IF "resp" \in DOMAIN last THEN last.resp.status_code >= 400
    ELSE last.result.exc # "NoException"

\* C18: an operation one of whose backend calls failed ends with an error
\* response or a raised error, never with a success result.
C18_FailedCallPropagates == SomeCallFailed => EndedInError

C20_LaunchErrorsAreDistinct ==
    (/\ last.op \in {"start_categorization_job", "start_segmentation_job"}
     /\ last.calls[1].outcome \in {"EntityNotFoundException", "ClientError"})
    => /\ last.result.exc # "NoException"
       /\ last.calls[1].outcome = "EntityNotFoundException"
          => /\ last.result.val =
                   <<"The Glue job '", last.calls[1].JobName,
                     "' does not exist. Please check your configuration.">>
             /\ last.result.exc #
                   LaunchResult(last.calls[1].JobName, "ClientError", <<>>).exc
       /\ last.calls[1].outcome = "ClientError"
          => last.result.val[2] = "backend failure"

(***************************************************************************)
(* Claims about what POST /segmentation requires before it starts a job.   *)
(***************************************************************************)
\* the stored records that carry a generated script
RecordsWithScript == {i \in table : "generated_script_path" \in DOMAIN i}

\* a step of POST /segmentation for a path with the scheme whose object the
\* object store reports present
SegmentationStepOnExistingObject ==
    \E p \in RequestPaths : \E out \in StartOutcomes :
        /\ PassesValidation(p)
        /\ "ok" \in SegmentationHeads(p)
        /\ segmentation(p, "ok", out)

\* C21: POST /segmentation responds 404 when the table holds no record with
\* a generated script, and in that case makes no start_job_run call.
C21_NoScriptIs404 ==
    [][ (SegmentationStepOnExistingObject /\ RecordsWithScript = {})
        => /\ last'.resp.status_code = 404
           /\ \A k \in DOMAIN last'.calls : last'.calls[k].api # "start_job_run"
           /\ glueRuns' = glueRuns
      ]_vars

\* the object store holds the object that the path p names
ObjectExists(p) ==
    /\ PassesValidation(p)
    /\ BucketKey(p).exc = "NoException"
    /\ [Bucket |-> BucketKey(p).val[1], Key |-> BucketKey(p).val[2]] \in s3objects

\* C22: POST /categorize and POST /segmentation make a start_job_run call
\* only for a path that has the "s3://" scheme and whose object the object
\* store holds when the handler runs.
C22_JobOnlyForExistingObject ==
    [][ (/\ last' # last
         /\ last'.op \in {"categorize", "segmentation"}
         /\ \E k \in DOMAIN last'.calls : last'.calls[k].api = "start_job_run")
        => ObjectExists(last'.req)
      ]_vars

(***************************************************************************)
(* chalicelib/services/s3_service.py: validate_file_exists called on its   *)
(* own, for a pending path drawn from Paths, against the object store.     *)
(***************************************************************************)
\* what validate_file_exists returns or raises for the unpacking bk of the
\* path and a head_object answered by head: the except clauses of lines
\* 31-37 catch NoSuchKey and ClientError and nothing else
FileExistsResult(s3_path, bk, head) ==
    IF bk.exc # "NoException" THEN bk
    ELSE CASE head = "ok" -> Ok(None)
           [] head = "NoSuchKey" ->
                Raise("ValidationError",
                      <<"The file '", s3_path,
                        "' does not exist in S3. Please check the file path and ensure the file has been uploaded.">>)
           [] head = "ClientError" ->
                Raise("ValidationError", <<"Unable to access S3 file: ", "backend failure">>)
           [] OTHER -> Raise(head, "backend failure")

\* the answers of head_object that validate_file_exists can meet for the
\* path p: none is asked for when the unpacking of line 27 raises
FileExistsHeads(p) ==
    IF BucketKey(p).exc = "NoException"
    THEN HeadOutcomes([Bucket |-> BucketKey(p).val[1], Key |-> BucketKey(p).val[2]])
    ELSE {"none"}

validate_file_exists(head) ==
    /\ last.op = "pending"
    /\ head \in FileExistsHeads(last.path)
    /\ LET bk == BucketKey(last.path)
       IN  last' = Called("validate_file_exists",
                          [s3_path |-> last.path],
                          IF bk.exc = "NoException"
                          THEN <<HeadObjectCall([Bucket |-> bk.val[1], Key |-> bk.val[2]], head)>>
                          ELSE <<>>,
                          FileExistsResult(last.path, bk, head))
    /\ UNCHANGED <<glueRuns, table, s3objects, clock>>

NextS3 ==
    \/ \E o \in ObjectKeys : ObjectCreated(o)
    \/ \E o \in ObjectKeys : ObjectDeleted(o)
    \/ \E head \in {"ok", "NoSuchKey", "ClientError", "OtherError", "none"} :
          validate_file_exists(head)

SpecS3 == InitValidators /\ [][NextS3]_vars

(***************************************************************************)
(* Claims about S3Service.validate_file_exists, checked under SpecS3.      *)
(***************************************************************************)
\* the bucket and key of a path with the scheme: the texts around the first
\* "/" after the scheme
SplitAfterScheme(p) ==
    LET i == CHOOSE j \in (Len(S3Scheme) + 1)..Len(p) :
                 /\ p[j] = "/"
                 /\ \A k \in (Len(S3Scheme) + 1)..(j - 1) : p[k] # "/"
    IN  [Bucket |-> SubSeq(p, Len(S3Scheme) + 1, i - 1), Key |-> SubSeq(p, i + 1, Len(p))]

\* C23: S3Service.validate_file_exists(path) makes exactly one head_object
\* call, with the bucket and key around the first "/" after "s3://"; it
\* returns normally when head_object finds the object and raises
\* ValidationError, and no other exception class, otherwise.
C23_FileExistsOrValidationError ==
    last.op = "validate_file_exists"
    => /\ Len(last.calls) = 1
       /\ last.calls[1].api = "head_object"
       /\ (StartsWith(last.args.s3_path, S3Scheme) /\ HasSlashAfterScheme(last.args.s3_path))
          => /\ last.calls[1].Bucket = SplitAfterScheme(last.args.s3_path).Bucket
             /\ last.calls[1].Key = SplitAfterScheme(last.args.s3_path).Key
       /\ last.calls[1].outcome = "ok" => last.result = Ok(None)
       /\ last.calls[1].outcome # "ok" => last.result.exc = "ValidationError"

(***************************************************************************)
(* Claims about GlueService.get_job_status and the job names of the        *)
(* launchers, checked under SpecGlue.                                      *)
(***************************************************************************)
\* the lower-cased name of each job run state
StateWord ==
    [STARTED |-> "started", RUNNING |-> "running", SUCCEEDED |-> "succeeded",
     FAILED |-> "failed", STOPPED |-> "stopped", TIMEOUT |-> "timeout"]

\* C24: GlueService.get_job_status returns the state of the run as the
\* backend gave it; the message is "Job is <state lower-cased>" for STARTED
\* and RUNNING and "Job <state lower-cased>" for SUCCEEDED, FAILED, STOPPED
\* and TIMEOUT; errorMessage is the ErrorMessage of the run when the state
\* is FAILED, STOPPED or TIMEOUT and None in every other state.
C24_StatusIsPassedOn ==
    (/\ last.op = "svc_get_job_status"
     /\ last.calls[1].outcome = "NoException")
    => LET run == last.calls[1].JobRun
           body == last.result.val
       IN  /\ last.result.exc = "NoException"
           /\ run.state \in DOMAIN StateWord
           /\ body.status = run.state
           /\ body.message = IF run.state \in {"STARTED", "RUNNING"}
                             THEN <<"Job is ", StateWord[run.state]>>
                             ELSE <<"Job ", StateWord[run.state]>>
           /\ body.errorMessage = IF run.state \in {"FAILED", "STOPPED", "TIMEOUT"}
                                     /\ run.err # NoMessage
                                  THEN run.err ELSE None

\* a succeeded run that carries an ErrorMessage was reported without it
C24_Witness ==
    /\ last.op = "svc_get_job_status"
    /\ last.calls[1].outcome = "NoException"
    /\ last.calls[1].JobRun.state = "SUCCEEDED"
    /\ last.calls[1].JobRun.err = "warned"
    /\ last.result.val.message = <<"Job ", "succeeded">>
    /\ last.result.val.errorMessage = None

\* the configured job-definition name for each launcher
ConfiguredJob ==
    [start_categorization_job |-> CATEGORIZATION_GLUE_JOB,
     start_segmentation_job |-> SEGMENTATION_GLUE_JOB]

\* C25: start_categorization_job and start_segmentation_job call
\* start_job_run with the configured job-definition name of their job type,
\* which is not the region identifier; the two job names differ.
C25_JobNameIsNotTheRegion ==
    /\ ConfiguredJob["start_categorization_job"] # ConfiguredJob["start_segmentation_job"]
    /\ last.op \in DOMAIN ConfiguredJob
       => /\ last.calls[1].api = "start_job_run"
          /\ last.calls[1].JobName = ConfiguredJob[last.op]
          /\ last.calls[1].JobName # REGION_NAME

(***************************************************************************)
(* Claims about polling the runs that the handlers launched.               *)
(***************************************************************************)
\* a step of GET /job-status for the run id that the backend holds, with a
\* backend that answers
StatusStepOfLaunchedRun(id) ==
    /\ id \in DOMAIN glueRuns
    /\ \E scan \in StatusScans : get_job_status(id, FALSE, scan)

\* C26: GET /job-status/r for a run r that POST /segmentation or POST
\* /categorize launched asks the backend for r under the job name that r
\* was launched with, finds it, and does not respond 404.
C26_LaunchedRunCanBePolled ==
    [][ \A id \in RunIds :
          StatusStepOfLaunchedRun(id)
          => /\ last'.calls[1].JobName = glueRuns[id].job
             /\ last'.calls[1].outcome = "NoException"
             /\ last'.calls[1].JobRun.state = glueRuns[id].state
             /\ last'.resp.status_code # 404
      ]_vars

(***************************************************************************)
(* Two categorization runs in flight under the same job name: the state    *)
(* after two requests POST /categorize were answered 200.  Each run works  *)
(* on its own file; its job invokes the inference entry point, and its     *)
(* script and result are also written through the object service and the   *)
(* metadata service.                                                       *)
(***************************************************************************)
InitRuns ==
    /\ glueRuns = << [job |-> CATEGORIZATION_GLUE_JOB, state |-> "STARTED", err |-> NoMessage],
                     [job |-> CATEGORIZATION_GLUE_JOB, state |-> "STARTED", err |-> NoMessage] >>
    /\ table = {}
    /\ s3objects = {}
    /\ clock = 0
    /\ last = NoCall

\* the file that the run i categorizes
FileOfRun(i) == IF i = 1 THEN "f.csv" ELSE "g.csv"

\* the event that the job of the run i sends to the entry point
EventOfRun(i) == [data |-> <<"row1">>, schema |-> <<"col1">>, file_name |-> FileOfRun(i)]

\* the completion of the categorization of the file of the run i
CompletionOfRun(i) == IF i = 1 THEN <<"{", "k", "v", "}">> ELSE <<"{", "}">>

\* the categorization result of the file of the run i
ResultOfRun(i) ==
    [suggested_categories |-> IF i = 1 THEN <<"cat1">> ELSE <<"cat2">>,
     reasoning |-> "r", segmentation_criteria |-> <<>>]

\* the job of the running run i invokes categorize_with_bedrock for its file
RunInvokesInference(i, putOut, upOut) ==
    LET o == CategorizeWithBedrock(EventOfRun(i), CompletionOfRun(i), "ok", <<"x">>, "ok",
                                   putOut, upOut, clock)
    IN  /\ glueRuns[i].state = "RUNNING"
        /\ Cardinality({q \in table : \A w \in o.written : q.file_id # w.file_id}
                           \cup o.written) <= MaxItems
        /\ last' = Called("categorize_with_bedrock",
                          [event |-> EventOfRun(i), completion |-> CompletionOfRun(i),
                           script_completion |-> <<"x">>],
                          o.calls, o.result)
        /\ table' = {q \in table : \A w \in o.written : q.file_id # w.file_id}
                        \cup o.written
        /\ s3objects' = s3objects \cup o.uploaded
        /\ UNCHANGED <<glueRuns, clock>>

\* what S3Service.upload_script returns or raises after a put_object
\* answered by out
UploadResult(bucket, key, out) ==
    IF out = "ok" THEN Ok(<<"s3://", bucket, "/", key>>)
    ELSE Raise("Exception", <<"Failed to upload script to S3: ", "backend failure">>)

\* S3Service.upload_script
upload_script(script_content, bucket, key, out) ==
    LET o == [Bucket |-> bucket, Key |-> key]
    IN  /\ s3objects' = IF out = "ok" THEN s3objects \cup {o} ELSE s3objects
        /\ last' = Called("upload_script",
                          [script_content |-> script_content, bucket |-> bucket, key |-> key],
                          <<PutObjectCall(o, script_content, out)>>,
                          UploadResult(bucket, key, out))
        /\ UNCHANGED <<glueRuns, table, clock>>

\* the script of the running run i is uploaded through the object service,
\* under the key of the clock reading
RunUploadsScript(i, out) ==
    /\ glueRuns[i].state = "RUNNING"
    /\ upload_script("print(1)", "data-categorization-temp", ScriptKey(IsoFormat(clock)), out)

\* the result of the running run i is stored through the metadata service,
\* with the script path of the clock reading
RunStoresResult(i, out) ==
    /\ glueRuns[i].state = "RUNNING"
    /\ store_categorization_results(FileOfRun(i), ResultOfRun(i), "print(1)",
                                    ScriptPath(IsoFormat(clock)), 1, <<"col1">>,
                                    CATEGORIZATION_GLUE_JOB, out)

NextRuns ==
    \/ Tick
    \/ \E i \in DOMAIN glueRuns : GlueRunStarts(i)
    \/ \E i \in DOMAIN glueRuns : GlueRunSucceeds(i)
    \/ \E i \in DOMAIN glueRuns : \E a \in LaterAnswers :
          a[1] = <<"x">> /\ a[2] = "ok" /\ RunInvokesInference(i, a[3], a[4])
    \/ \E i \in DOMAIN glueRuns, out \in {"ok", "fail"} : RunUploadsScript(i, out)
    \/ \E i \in DOMAIN glueRuns, out \in {"ok", "fail"} : RunStoresResult(i, out)
    \/ \E id \in DOMAIN glueRuns, scan \in StatusScans : get_job_status(id, FALSE, scan)

SpecRuns == InitRuns /\ [][NextRuns]_vars

(***************************************************************************)
(* Claims about concurrent runs, checked under SpecRuns.                   *)
(***************************************************************************)
\* the stored records that the run id produced: those of its file
RecordsOfRun(id) == {q \in table : q.file_name = FileOfRun(id)}

\* the response body carries the categories and the script path of the
\* record q
Carries(body, q) ==
    /\ {"suggestedCategories", "generatedScriptPath"} \subseteq DOMAIN body
    /\ body.suggestedCategories = q.suggested_categories
    /\ body.generatedScriptPath = q.generated_script_path

\* C27: with two categorization runs in flight under the same job name, a
\* GET /job-status for a run in state SUCCEEDED that has produced a record
\* returns a record of that run and never a record of the other run.
C27_StatusReturnsOwnRecord ==
    [][ \A id \in DOMAIN glueRuns :
          (/\ \E scan \in StatusScans : get_job_status(id, FALSE, scan)
           /\ glueRuns[id].state = "SUCCEEDED"
           /\ RecordsOfRun(id) # {})
          => /\ \E q \in RecordsOfRun(id) : Carries(last'.resp.body, q)
             /\ \A q \in table \ RecordsOfRun(id) : ~Carries(last'.resp.body, q)
      ]_vars

\* the object that a script path refers to: the key after the bucket
ObjectOfScriptPath(path) == [Bucket |-> "data-categorization-temp", Key |-> path[2]]

\* C28: in every reachable state, the generated_script_path of every record
\* in the table refers to an object that the object store holds.
C28_StoredScriptIsUploaded ==
    \A r \in table : ObjectOfScriptPath(r.generated_script_path) \in s3objects

(***************************************************************************)
(* Claims about the handlers as total functions of their request.          *)
(***************************************************************************)
\* C29: the handlers of /categorize, /segmentation and /job-status answer
\* every request with a response of their own and let no exception escape,
\* also for an s3FilePath with the scheme and no "/" after the bucket.
C29_HandlersAreTotal ==
    last.op \in {"categorize", "segmentation", "get_job_status"}
    => /\ last.resp.status_code \in {200, 400, 404, 500}
       /\ "Code" \notin DOMAIN last.resp.body
       /\ last.resp # UncaughtResponse("ValueError")

(***************************************************************************)
(* Claims about the round trip of validate_s3_path, checked under          *)
(* SpecValidators.                                                         *)
(***************************************************************************)
\* C30: whenever validate_s3_path returns (bucket, key) for a path, bucket
\* and key are not empty and "s3://" + bucket + "/" + key is the path, also
\* when the key holds the text "s3://".
C30_AcceptedPathIsRebuilt ==
    (/\ last.op = "validate_s3_path"
     /\ last.result.exc = "NoException")
    => LET bucket == last.result.val[1]
           key == last.result.val[2]
       IN  /\ bucket # <<>>
           /\ key # <<>>
           /\ S3Scheme \o bucket \o <<"/">> \o key = last.path

====
